---- MODULE Spec2Model ----
(***************************************************************************)
(* Scoring, section classification, content selection and personalization  *)
(* learning of the AI newsletter bot, as state machines.                    *)
(*                                                                         *)
(* Text is modelled as a sequence of words drawn from a small vocabulary;  *)
(* Python's `kw in text` (substring search in the lower-cased, space-      *)
(* joined text) is tabulated by Has for that vocabulary.  Scores are kept  *)
(* in hundredths (round(x, 2)), multipliers in tenths.                     *)
(***************************************************************************)
EXTENDS Integers, Sequences, FiniteSets, TLC

VARIABLES
    pc,            \* stage of the pipeline run: fetched, scored, classified, selected
    fetched,       \* the article list handed to score_articles
    scoreCfg,      \* <<config>> used by score_articles, <<>> before it ran
    scored,        \* list returned by score_articles
    classifyMode,  \* <<mode>> used by classify_all_articles, <<>> before it ran
    classified,    \* dict returned by classify_all_articles
    selCfg,        \* <<config>> used by auto_select_articles, <<>> before it ran
    selection,     \* dict returned by auto_select_articles
    disk,          \* review_*.json files of the output directory: name -> <<content>> or <<>>
    cacheFile,     \* profile_cache.json: <<data>> or <<>> when the file does not exist
    profile,       \* PersonalizationService.preference_profile of the live instance
    reads,         \* review files opened for reading by the last operation
    clock,         \* datetime.now() at the granularity of learner runs
    streak,        \* learner runs since the directory or the instance last changed (up to 2)
    touched,       \* files listed in the cache that were written again after the learner read them
    cacheDir,      \* entry files of the ArticleCache directory: file -> <<content>> or <<>>
    timeNow,       \* time.time(), in seconds
    ttl,           \* ArticleCache.ttl
    lastSet,       \* per entry file, <<content>> written by the last completed set
    cacheCall,     \* the last completed ArticleCache call, its time and what it returned
    writing,       \* <<the set call that has opened its file and not yet dumped>>, or <<>>
    prediction,    \* <<outcome of the last predict_selection_likelihood call>>, or <<>>
    made,          \* <<arguments and result of the last Article(...) construction>>, or <<>>
    normalized,    \* <<argument and result of the last _normalize_topics_config call>>, or <<>>
    boosted,       \* <<arguments and result of the last boost_article_score call>>, or <<>>
    batch          \* the classify_all_articles call in progress: its arguments and position

vars == <<pc, fetched, scoreCfg, scored, classifyMode, classified, selCfg, selection,
          disk, cacheFile, profile, reads, clock, streak, touched,
          cacheDir, timeNow, ttl, lastSet, cacheCall, writing, prediction, made, normalized, boosted, batch>>

pipelineVars == <<pc, fetched, scoreCfg, scored, classifyMode, classified, selCfg, selection>>
learnerVars == <<disk, cacheFile, profile, reads, clock, streak, touched>>
cacheVars == <<cacheDir, timeNow, ttl, lastSet, cacheCall, writing>>
callVars == <<prediction, made, normalized, boosted>>
batchVars == <<batch>>

(***************************************************************************)
(* Bounds                                                                  *)
(***************************************************************************)
MaxArticles == 3

\* Review files review_1.json .. review_<MaxFiles>.json may exist.
MaxFiles == 2

\* Learner runs are numbered up to MaxClock.
MaxClock == 2

(***************************************************************************)
(* Generic sequence helpers                                                *)
(***************************************************************************)
Range(s) == {s[i] : i \in 1..Len(s)}

Min(a, b) == IF a <= b THEN a ELSE b

Max(a, b) == IF a >= b THEN a ELSE b

\* Python slice s[:n] for any integer n (a negative n counts from the end).
Prefix(s, n) ==
    IF n >= 0 THEN SubSeq(s, 1, Min(n, Len(s)))
    ELSE SubSeq(s, 1, Max(0, Len(s) + n))

\* All duplicate-free sequences over S of length at most n.
DistinctSeqs(S, n) ==
    UNION {{s \in [1..k -> S] : \A i, j \in 1..k : i < j => s[i] # s[j]} : k \in 0..n}

(***************************************************************************)
(* Text model                                                              *)
(***************************************************************************)
\* str.lower() on the words and keywords of the model.
Lower(w) ==
    CASE w = "Parliament" -> "parliament"
      [] w = "Canadian" -> "canadian"
      [] w = "Canada" -> "canada"
      [] w = "AGI" -> "agi"
      [] w = "Spam" -> "spam"
      [] w = "News" -> "news"
      [] OTHER -> w

LowerSeq(s) == [i \in 1..Len(s) |-> Lower(s[i])]

\* The keyword parts that occur as a substring of a lower-cased vocabulary word.
Has(w) ==
    CASE w = "grain" -> {"grain", "ai"}
      [] w = "impact" -> {"impact", "act"}
      [] w = "news" -> {"news", "new"}
      [] w = "models" -> {"models", "model"}
      [] OTHER -> {w}

\* `kw in text` for a lower-cased keyword kw (a sequence of space-separated
\* parts, <<>> being the empty string) and a lower-cased text (a sequence of
\* words joined by single spaces).  No vocabulary word properly ends or
\* starts with a part of a multi-word keyword, so those match word by word.
Contains(text, kw) ==
    IF Len(kw) = 0 THEN TRUE
    ELSE IF Len(kw) = 1 THEN \E i \in 1..Len(text) : kw[1] \in Has(text[i])
    ELSE \E i \in 1..(Len(text) - Len(kw) + 1) :
            \A j \in 1..Len(kw) : text[i + j - 1] = kw[j]

AnyKeyword(text, keywords) == \E k \in 1..Len(keywords) : Contains(text, keywords[k])

(***************************************************************************)
(* Articles (sources/rss_fetcher.py)                                       *)
(***************************************************************************)
\* A constructed Article.  published is <<age in days>>, or <<>> for None;
\* score is in hundredths.
Article(url, title, summary, source, age, priority) ==
    [url |-> url, title |-> title, summary |-> summary, source |-> source,
     published |-> <<age>>, category |-> "", priority |-> priority, score |-> 0,
     section |-> "", sentiment |-> ""]

\* The feed items of the model: one stable URL each.
ArticlePool ==
    { Article("u1", <<"Canadian", "Parliament">>, <<>>, <<"News">>, 0, "high"),
      Article("u2", <<"policy", "chips">>, <<>>, <<"News">>, 2, "medium"),
      Article("u3", <<"chips">>, <<>>, <<"News">>, 0, "medium"),
      Article("u4", <<"Parliament", "tool">>, <<>>, <<"News">>, 8, "low"),
      Article("u5", <<"AGI", "breakthrough">>, <<>>, <<"News">>, 0, "high"),
      Article("u6", <<"impact">>, <<"chips">>, <<"arxiv">>, 10, "medium"),
      Article("u7", <<"grain">>, <<"Spam">>, <<"News">>, 6, "low"),
      Article("u8", <<"Parliament", "policy">>, <<>>, <<"News">>, 4, "medium"),
      Article("u9", <<"chips", "AGI">>, <<>>, <<"News">>, 2, "low"),
      Article("u10", <<"breakthrough">>, <<"chips">>, <<"News">>, 4, "medium") }

ArticleLists == DistinctSeqs(ArticlePool, MaxArticles)

\* Feed items that match the keywords of more than one section rule.
OverlapPool ==
    { Article("o1", <<"grain", "tool">>, <<>>, <<"arxiv">>, 0, "medium"),
      Article("o2", <<"tool", "breakthrough">>, <<>>, <<"arxiv">>, 0, "medium"),
      Article("o3", <<"breakthrough">>, <<>>, <<"arxiv">>, 0, "medium"),
      Article("o4", <<"grain", "breakthrough">>, <<"chips">>, <<"News">>, 0, "medium"),
      Article("o5", <<"chips", "breakthrough">>, <<>>, <<"arxiv">>, 0, "medium"),
      Article("o6", <<"policy">>, <<>>, <<"News">>, 0, "medium") }

OverlapLists == DistinctSeqs(OverlapPool, MaxArticles)

\* Ages in days of the feed items compared for recency.
MaxAge == 8

\* Two feed items that differ in their publication time only.
RecencyPairs ==
    { << [a EXCEPT !.published = <<older>>], [a EXCEPT !.published = <<newer>>] >> :
        a \in ArticlePool, older \in 0..MaxAge, newer \in 0..MaxAge }

(***************************************************************************)
(* Scoring engine (processors/scorer.py)                                   *)
(***************************************************************************)
\* A topic rule of the list format; priority is [ok |-> TRUE, val |-> tenths]
\* or [ok |-> FALSE, val |-> 0] for a value float() rejects.
Topic(name, keywords, tenths) ==
    [name |-> name, keywords |-> keywords, priority |-> [ok |-> TRUE, val |-> tenths]]

TopicsPool ==
    { <<>>,
      << Topic("capabilities", << <<"AGI">>, <<"breakthrough">> >>, 20),
         Topic("governance", << <<"regulation">>, <<"policy">>, <<>> >>, 15) >> }

CanadianKeywordsPool == { <<>>, << <<"Canada">>, <<"Canadian">>, <<"Parliament">> >> }

CanadianBoostPool == {15, 10, 5, -10}

ExcludePatternsPool == { <<>>, << <<"Spam">> >>, << <<"sponsored">>, <<"chips">> >> }

ScoreCfgs ==
    [topics : TopicsPool, canadian_keywords : CanadianKeywordsPool,
     canadian_boost : CanadianBoostPool, exclude_patterns : ExcludePatternsPool]

\* Configurations with and without a topic rule named tools.
OverlapScoreCfgs ==
    { [topics |-> t, canadian_keywords |-> <<>>, canadian_boost |-> 10,
       exclude_patterns |-> <<>>] :
        t \in { << Topic("tools", << <<"chips">> >>, 10) >>,
                << Topic("capabilities", << <<"AGI">>, <<"breakthrough">> >>, 20) >> } }

\* The configuration of the test suite: canadian_boost 1.0, no exclusions.
PipelineScoreCfgs ==
    {c \in ScoreCfgs : /\ c.topics # <<>>
                       /\ c.canadian_keywords = <<>>
                       /\ c.canadian_boost = 10
                       /\ c.exclude_patterns = <<>>}

\* [k.lower() for k in keywords]
LowerAll(keywords) == [i \in 1..Len(keywords) |-> LowerSeq(keywords[i])]

\* _normalize_topics_config, list format: rules are converted in order; an
\* exception (a priority float() rejects) ends the loop and what was
\* converted so far is returned.
RECURSIVE NormalizeFrom(_, _, _)
NormalizeFrom(raw, i, acc) ==
    IF i > Len(raw) THEN acc
    ELSE IF ~raw[i].priority.ok THEN acc
    ELSE NormalizeFrom(raw, i + 1,
            Append(acc, [category |-> raw[i].name,
                         keywords |-> LowerAll(SelectSeq(raw[i].keywords, LAMBDA k : k # <<>>)),
                         boost |-> raw[i].priority.val]))

_normalize_topics_config(raw) == NormalizeFrom(raw, 1, <<>>)

\* Longest topic list normalized.
MaxTopics == 3

\* A rule whose priority is a string float() rejects.
MalformedTopic(name, keywords) ==
    [name |-> name, keywords |-> keywords, priority |-> [ok |-> FALSE, val |-> 0]]

RawTopicPool ==
    { Topic("capabilities", << <<"AGI">>, <<"breakthrough">> >>, 20),
      Topic("governance", << <<"regulation">>, <<"policy">>, <<>> >>, 15),
      Topic("tools", << <<"Tool">> >>, 5),
      MalformedTopic("capabilities", << <<"AGI">>, <<"breakthrough">> >>),
      MalformedTopic("governance", << <<"regulation">>, <<"policy">>, <<>> >>),
      MalformedTopic("tools", << <<"Tool">> >>) }

RawTopicLists == UNION { [1..n -> RawTopicPool] : n \in 0..MaxTopics }

\* normalized_topics = _normalize_topics_config(raw_topics)
Normalize(raw) ==
    /\ normalized' = <<[raw |-> raw, out |-> _normalize_topics_config(raw)]>>
    /\ normalized' # normalized
    /\ UNCHANGED <<pc, fetched, scoreCfg, scored, classifyMode, classified, selCfg, selection,
                   disk, cacheFile, profile, reads, clock, streak, touched,
                   cacheDir, timeNow, ttl, lastSet, cacheCall, writing, prediction, made, boosted, batch>>

\* _calculate_topic_score_fast: <<best score in tenths, best category>>; a
\* later rule replaces the best one only with a strictly higher score.
RECURSIVE TopicScoreFrom(_, _, _, _)
TopicScoreFrom(text_lower, topics, i, best) ==
    IF i > Len(topics) THEN best
    ELSE LET topic == topics[i]
             matches == Cardinality({k \in 1..Len(topic.keywords) :
                                        Contains(text_lower, topic.keywords[k])})
             category_score == matches * topic.boost
         IN IF topic.keywords # <<>> /\ matches > 0 /\ category_score > best[1]
            THEN TopicScoreFrom(text_lower, topics, i + 1, <<category_score, topic.category>>)
            ELSE TopicScoreFrom(text_lower, topics, i + 1, best)

_calculate_topic_score_fast(text_lower, normalized_topics) ==
    TopicScoreFrom(text_lower, normalized_topics, 1, <<0, "">>)

\* calculate_canadian_score, in tenths.
calculate_canadian_score(canadian_keywords, boost, text_lower) ==
    LET matches == Cardinality({k \in 1..Len(canadian_keywords) :
                                   Contains(text_lower, LowerSeq(canadian_keywords[k]))})
    IN IF matches > 0 THEN boost * Min(matches, 3) ELSE 10

\* calculate_recency_score, in tenths.
calculate_recency_score(article) ==
    IF article.published = <<>> THEN 5
    ELSE LET days_old == article.published[1]
         IN IF days_old <= 1 THEN 10
            ELSE IF days_old <= 3 THEN 8
            ELSE IF days_old <= 5 THEN 6
            ELSE IF days_old <= 7 THEN 4
            ELSE 2

\* calculate_priority_score, in tenths.
calculate_priority_score(article) ==
    CASE article.priority = "high" -> 15
      [] article.priority = "medium" -> 10
      [] article.priority = "low" -> 5
      [] OTHER -> 10

\* should_exclude comparing the patterns as configured, without lower().
should_exclude_CaseSensitive(exclude_patterns, text_lower) ==
    \E p \in 1..Len(exclude_patterns) : Contains(text_lower, exclude_patterns[p])

\* should_exclude(article, exclude_patterns, text_lower).
should_exclude(exclude_patterns, text_lower) ==
    \E p \in 1..Len(exclude_patterns) : Contains(text_lower, LowerSeq(exclude_patterns[p]))

\* round(x, 2) of x = n / 10^4, in hundredths: nearest, ties to even.
Round2(n) ==
    LET q == n \div 100
        r == n % 100
    IN IF r > 50 \/ (r = 50 /\ q % 2 = 1) THEN q + 1 ELSE q

\* f"{title} {summary}".lower()
TextLower(article) == LowerSeq(article.title \o article.summary)

\* The body of the loop of score_articles for an article that is kept.
ScoreOne(article, cfg) ==
    LET text_lower == TextLower(article)
        topic == _calculate_topic_score_fast(text_lower, _normalize_topics_config(cfg.topics))
        canadian_multiplier ==
            calculate_canadian_score(cfg.canadian_keywords, cfg.canadian_boost, text_lower)
        base_score == Max(topic[1], 10)
        final_score == base_score * canadian_multiplier * calculate_recency_score(article)
                          * calculate_priority_score(article)
    IN [article EXCEPT !.category = IF topic[2] # "" THEN topic[2] ELSE article.category,
                       !.score = Round2(final_score)]

\* list.sort(key=score, reverse=True): a stable sort, equal scores keep
\* their order.  Insert x after every element whose score is >= x's.
RECURSIVE InsertByScore_Unstable(_, _)
InsertByScore_Unstable(sorted, x) ==
    IF sorted = <<>> THEN <<x>>
    ELSE IF sorted[1].score > x.score
         THEN <<sorted[1]>> \o InsertByScore_Unstable(Tail(sorted), x)
         ELSE <<x>> \o sorted

RECURSIVE InsertByScore(_, _)
InsertByScore(sorted, x) ==
    IF sorted = <<>> THEN <<x>>
    ELSE IF sorted[1].score >= x.score
         THEN <<sorted[1]>> \o InsertByScore(Tail(sorted), x)
         ELSE <<x>> \o sorted

RECURSIVE SortByScoreDesc(_)
SortByScoreDesc(s) ==
    IF s = <<>> THEN <<>>
    ELSE InsertByScore(SortByScoreDesc(SubSeq(s, 1, Len(s) - 1)), s[Len(s)])

\* score_articles(articles, config)
score_articles(articles, cfg) ==
    LET kept == SelectSeq(articles,
                    LAMBDA a : ~should_exclude(cfg.exclude_patterns, TextLower(a)))
    IN SortByScoreDesc([i \in 1..Len(kept) |-> ScoreOne(kept[i], cfg)])

(***************************************************************************)
(* Section classifier (processors/section_classifier.py)                   *)
(***************************************************************************)
BRIGHT_SPOT_KEYWORDS ==
    << <<"breakthrough">>, <<"cure">>, <<"innovation">>, <<"success">>, <<"achievement">>,
       <<"milestone">>, <<"wins">>, <<"discovery">>, <<"medical", "advance">>,
       <<"health", "benefit">>, <<"positive", "development">>, <<"good", "news">>,
       <<"solution">>, <<"beat">>, <<"exceeds">>, <<"record">> >>

TOOL_KEYWORDS ==
    << <<"tool">>, <<"platform">>, <<"app">>, <<"application">>, <<"launch">>, <<"release">>,
       <<"product">>, <<"library">>, <<"framework">>, <<"announces">>, <<"introduces">>,
       <<"debuts">>, <<"new", "service">>, <<"available", "now">>, <<"download">>,
       <<"open", "source">> >>

GRAIN_QUALITY_KEYWORDS ==
    << <<"agriculture">>, <<"farming">>, <<"grain">>, <<"crop">>, <<"harvest">>,
       <<"agricultural">>, <<"farm">>, <<"wheat">>, <<"corn">>, <<"rice">>,
       <<"quality", "control">>, <<"soil">>, <<"farmer">> >>

\* Word-count threshold of is_long_form.
LongFormWords == 400

\* The ways one classification run can meet the sentiment oracle: the
\* use_sentiment_api argument, whether google.generativeai was importable,
\* whether GEMINI_API_KEY is set, and what the oracle does when called
\* (a valid label, a label outside the four, or an exception).
OracleReplies == {"positive", "negative", "neutral", "mixed", "invalid", "error"}

ClassifyModes ==
    {m \in [use_sentiment_api : BOOLEAN, gemini_available : BOOLEAN,
            api_key : BOOLEAN, reply : OracleReplies] :
        \* the reply matters only when the oracle is actually called
        (~m.use_sentiment_api \/ ~m.gemini_available \/ ~m.api_key) => m.reply = "neutral"}

PipelineModes ==
    {m \in ClassifyModes : ~m.use_sentiment_api /\ m.gemini_available /\ m.api_key}

\* detect_sentiment(article, gemini_config)
detect_sentiment(article, mode) ==
    IF ~mode.gemini_available THEN "neutral"
    ELSE IF ~mode.api_key THEN "neutral"
    ELSE IF mode.reply \in {"positive", "negative", "neutral", "mixed"} THEN mode.reply
    ELSE "neutral"

has_positive_sentiment_keywords(title, summary) ==
    AnyKeyword(LowerSeq(title \o summary), BRIGHT_SPOT_KEYWORDS)

has_tool_keywords(title, summary) ==
    AnyKeyword(LowerSeq(title \o summary), TOOL_KEYWORDS)

is_research_paper(article) ==
    LET text == LowerSeq(article.title \o article.source \o article.summary)
        academic_indicators == << <<"research">>, <<"study">>, <<"analysis">>, <<"findings">>,
                                  <<"model">>, <<"framework">>, <<"algorithm">> >>
        keyword_count == Cardinality({k \in 1..Len(academic_indicators) :
                             Contains(LowerSeq(article.title), academic_indicators[k])})
    IN \/ Contains(text, <<"arxiv">>)
       \/ AnyKeyword(text, << <<"arxiv">>, <<"research", "paper">>, <<"journal">>,
                              <<"university">>, <<"academic">> >>)
       \/ keyword_count >= 2

is_long_form(article) ==
    \/ Len(article.summary) > LongFormWords
    \/ AnyKeyword(LowerSeq(article.title \o article.source),
                  << <<"white", "paper">>, <<"report">>, <<"analysis">>, <<"deep", "dive">> >>)

has_grain_keywords(article) ==
    AnyKeyword(LowerSeq(article.title \o article.summary), GRAIN_QUALITY_KEYWORDS)

\* classify_article_section without the final return "headline".
classify_article_section_NoDefault(article, mode) ==
    IF has_grain_keywords(article) THEN "grain_quality"
    ELSE IF article.category = "tools" \/ has_tool_keywords(article.title, article.summary)
         THEN "tool"
    ELSE IF is_research_paper(article) \/ is_long_form(article) THEN "deep_dive"
    ELSE IF (IF mode.use_sentiment_api /\ mode.gemini_available
             THEN detect_sentiment(article, mode) = "positive"
             ELSE has_positive_sentiment_keywords(article.title, article.summary))
         THEN "bright_spot" ELSE ""

\* classify_article_section with the tool rule tried before the grain rule.
classify_article_section_ToolFirst(article, mode) ==
    IF article.category = "tools" \/ has_tool_keywords(article.title, article.summary)
    THEN "tool"
    ELSE IF has_grain_keywords(article) THEN "grain_quality"
    ELSE IF is_research_paper(article) \/ is_long_form(article) THEN "deep_dive"
    ELSE LET is_positive ==
                 IF mode.use_sentiment_api /\ mode.gemini_available
                 THEN detect_sentiment(article, mode) = "positive"
                 ELSE has_positive_sentiment_keywords(article.title, article.summary)
         IN IF is_positive THEN "bright_spot" ELSE "headline"

\* classify_article_section(article, config, use_sentiment_api)
classify_article_section(article, mode) ==
    IF has_grain_keywords(article) THEN "grain_quality"
    ELSE IF article.category = "tools" \/ has_tool_keywords(article.title, article.summary)
         THEN "tool"
    ELSE IF is_research_paper(article) \/ is_long_form(article) THEN "deep_dive"
    ELSE LET is_positive ==
                 IF mode.use_sentiment_api /\ mode.gemini_available
                 THEN detect_sentiment(article, mode) = "positive"
                 ELSE has_positive_sentiment_keywords(article.title, article.summary)
         IN IF is_positive THEN "bright_spot" ELSE "headline"

SectionKeys == {"headline", "bright_spot", "tool", "deep_dive", "grain_quality"}

\* The loop body of classify_all_articles: the article as it is after the
\* iteration.  hasattr(article, 'sentiment') is a test on the dataclass field.
ClassifyOne(article, mode) ==
    LET labelled == [article EXCEPT !.section = classify_article_section(article, mode)]
    IN IF "sentiment" \in DOMAIN labelled THEN labelled
       ELSE [labelled EXCEPT !.sentiment =
                IF mode.use_sentiment_api /\ mode.gemini_available
                THEN detect_sentiment(article, mode) ELSE "neutral"]

\* The input list after classify_all_articles: the loop assigns section (and
\* sentiment) on the caller's Article objects.
ClassifyInPlace(articles, mode) == [i \in 1..Len(articles) |-> ClassifyOne(articles[i], mode)]

\* classify_all_articles(articles, config, use_sentiment_api): each article is
\* appended to the list of the section it was just given.
classify_all_articles(articles, mode) ==
    LET done == ClassifyInPlace(articles, mode)
    IN [s \in SectionKeys |-> SelectSeq(done, LAMBDA a : a.section = s)]

(***************************************************************************)
(* Content selector (processors/article_selector.py)                       *)
(***************************************************************************)
CANADIAN_GOV_KEYWORDS ==
    << <<"government", "of", "canada">>, <<"canadian", "government">>,
       <<"federal", "government">>, <<"parliament">>, <<"minister">>, <<"department", "of">>,
       <<"innovation", "canada">>, <<"canadian", "digital">>, <<"canadian", "ai">>, <<"ised">>,
       <<"treasury", "board">>, <<"algorithm", "impact", "assessment">>,
       <<"provincial", "government">>, <<"province", "of">>, <<"statscan">>,
       <<"statistics", "canada">> >>

GOVERNANCE_KEYWORDS ==
    << <<"regulation">>, <<"regulation", "ai">>, <<"regulatory">>, <<"legislation">>, <<"law">>,
       <<"compliance">>, <<"governance">>, <<"policy">>, <<"ethics">>, <<"safety">>,
       <<"alignment">>, <<"responsible", "ai">>, <<"oversight">>, <<"audit">>,
       <<"transparency">>, <<"accountability">>, <<"bill">>, <<"act">>, <<"framework">> >>

is_canadian_government_story(article) ==
    AnyKeyword(LowerSeq(article.title \o article.summary \o article.source),
               CANADIAN_GOV_KEYWORDS)

is_governance_story(article) ==
    AnyKeyword(LowerSeq(article.title \o article.summary), GOVERNANCE_KEYWORDS)

find_canadian_government_stories(articles) ==
    SelectSeq(articles, is_canadian_government_story)

find_governance_stories(articles) == SelectSeq(articles, is_governance_story)

\* [a for a in articles if a not in chosen]
NotIn(articles, chosen) == SelectSeq(articles, LAMBDA a : a \notin Range(chosen))

Reverse(s) == [i \in 1..Len(s) |-> s[Len(s) + 1 - i]]

\* The separation with insert(0, article) in place of append(article).
SeparateBySection_Prepend(scored_articles) ==
    [s \in SectionKeys |->
        Reverse(SelectSeq(scored_articles,
                          LAMBDA a : IF a.section \in SectionKeys THEN a.section = s
                                     ELSE s = "headline"))]

\* The separation of the input by classified section (article_selector.py
\* 202-217): an unknown label, the empty default included, goes to headline.
SeparateBySection(scored_articles) ==
    [s \in SectionKeys |->
        SelectSeq(scored_articles,
                  LAMBDA a : IF a.section \in SectionKeys THEN a.section = s
                             ELSE s = "headline")]

\* Rules 2 and 3 with rule 2 taking the first governance story whether or
\* not rule 1 already chose it.
FillHeadlines_AnyGovernance(rule1, headline, cfg) ==
    LET governance_stories == find_governance_stories(headline)
        rule2 == IF governance_stories # <<>> THEN Append(rule1, governance_stories[1])
                 ELSE rule1
        remaining_headlines == NotIn(headline, rule2)
        governance_articles == SelectSeq(remaining_headlines, is_governance_story)
        other_articles == NotIn(remaining_headlines, governance_articles)
        needed == cfg.target_headlines - Len(rule2)
        target_governance == Max(0, (cfg.target_headlines * cfg.governance_ratio) \div 10)
        current_governance == Len(SelectSeq(rule2, is_governance_story))
        needed_governance == Max(0, target_governance - current_governance)
        needed_other == needed - needed_governance
    IN rule2 \o Prefix(governance_articles, needed_governance)
             \o Prefix(other_articles, needed_other)

\* Rules 2 and 3 of the headlines selection (239-274), after rule 1 chose
\* the list rule1 (one Canadian government story, or nothing).
FillHeadlines(rule1, headline, cfg) ==
    LET governance_stories == find_governance_stories(headline)
        candidates == NotIn(governance_stories, rule1)
        rule2 == IF candidates # <<>> THEN Append(rule1, candidates[1]) ELSE rule1
        remaining_headlines == NotIn(headline, rule2)
        governance_articles == SelectSeq(remaining_headlines, is_governance_story)
        other_articles == NotIn(remaining_headlines, governance_articles)
        needed == cfg.target_headlines - Len(rule2)
        \* int(target_headlines * governance_ratio), the ratio in tenths
        target_governance == Max(0, (cfg.target_headlines * cfg.governance_ratio) \div 10)
        current_governance == Len(SelectSeq(rule2, is_governance_story))
        needed_governance == Max(0, target_governance - current_governance)
        needed_other == needed - needed_governance
    IN rule2 \o Prefix(governance_articles, needed_governance)
             \o Prefix(other_articles, needed_other)

\* The headlines selection with rule 1 applied only while the quota has room.
SelectHeadlines_QuotaFirst(headline, cfg) ==
    LET canadian_gov_stories == find_canadian_government_stories(headline)
    IN FillHeadlines(IF canadian_gov_stories # <<>> /\ cfg.target_headlines > 0
                     THEN <<canadian_gov_stories[1]>> ELSE <<>>,
                     headline, cfg)

\* The headlines part of auto_select_articles (228-274).
SelectHeadlines(headline, cfg) ==
    LET canadian_gov_stories == find_canadian_government_stories(headline)
    IN FillHeadlines(IF canadian_gov_stories # <<>> THEN <<canadian_gov_stories[1]>> ELSE <<>>,
                     headline, cfg)

\* auto_select_articles(scored_articles, config)
auto_select_articles(scored_articles, cfg) ==
    LET classified_articles == SeparateBySection(scored_articles)
    IN [headlines |-> SelectHeadlines(classified_articles["headline"], cfg),
        bright_spots |-> Prefix(classified_articles["bright_spot"], cfg.target_bright_spots),
        tools |-> Prefix(classified_articles["tool"], cfg.target_tools),
        deep_dives |-> Prefix(classified_articles["deep_dive"], cfg.target_deep_dives),
        grain_quality |-> IF cfg.grain_enabled THEN classified_articles["grain_quality"]
                          ELSE <<>>]

\* Largest target_count of the section configurations tried.
MaxTarget == 3

SelCfgs ==
    {c \in [target_headlines : 0..MaxTarget, governance_ratio : {6, 10},
            target_bright_spots : {0, 1, 2}, target_tools : {0, 1},
            target_deep_dives : {0, 1, 4}, grain_enabled : BOOLEAN] :
        \* the other sections: the defaults (2, 1, 4), all 1, or all 0
        /\ <<c.target_bright_spots, c.target_tools, c.target_deep_dives>>
              \in {<<2, 1, 4>>, <<1, 1, 1>>, <<0, 0, 0>>}
        /\ c.grain_enabled = (c.target_tools = 1)}

(***************************************************************************)
(* The pipeline run: score_articles, classify_all_articles,                *)
(* auto_select_articles                                                    *)
(***************************************************************************)
NoSections == [s \in SectionKeys |-> <<>>]

NoSelection ==
    [headlines |-> <<>>, bright_spots |-> <<>>, tools |-> <<>>, deep_dives |-> <<>>,
     grain_quality |-> <<>>]

InitPipeline ==
    /\ pc = "fetched"
    /\ fetched \in ArticleLists
    /\ scoreCfg = <<>>
    /\ scored = <<>>
    /\ classifyMode = <<>>
    /\ classified = NoSections
    /\ selCfg = <<>>
    /\ selection = NoSelection

\* A fetch that returned the same item with two publication times.
FetchedPairs ==
    /\ pc = "fetched"
    /\ fetched \in RecencyPairs
    /\ scoreCfg = <<>>
    /\ scored = <<>>
    /\ classifyMode = <<>>
    /\ classified = NoSections
    /\ selCfg = <<>>
    /\ selection = NoSelection

\* A fetch of items that match several section rules.
FetchedOverlaps ==
    /\ pc = "fetched"
    /\ fetched \in OverlapLists
    /\ scoreCfg = <<>>
    /\ scored = <<>>
    /\ classifyMode = <<>>
    /\ classified = NoSections
    /\ selCfg = <<>>
    /\ selection = NoSelection

\* No pipeline run: the state of the pipeline variables in the learner's specification.
IdlePipeline ==
    /\ pc = "idle"
    /\ fetched = <<>>
    /\ scoreCfg = <<>>
    /\ scored = <<>>
    /\ classifyMode = <<>>
    /\ classified = NoSections
    /\ selCfg = <<>>
    /\ selection = NoSelection

\* scored = score_articles(articles, config)
ScoreArticles(cfg) ==
    /\ pc = "fetched"
    /\ pc' = "scored"
    /\ scoreCfg' = <<cfg>>
    /\ scored' = score_articles(fetched, cfg)
    /\ UNCHANGED <<fetched, classifyMode, classified, selCfg, selection>>
    /\ UNCHANGED <<learnerVars, cacheVars, callVars, batchVars>>

\* classified = classify_all_articles(articles, config, use_sentiment_api)
ClassifyAll(mode) ==
    /\ pc = "scored"
    /\ pc' = "classified"
    /\ classifyMode' = <<mode>>
    /\ scored' = ClassifyInPlace(scored, mode)
    /\ classified' = classify_all_articles(scored, mode)
    /\ UNCHANGED <<fetched, scoreCfg, selCfg, selection>>
    /\ UNCHANGED <<learnerVars, cacheVars, callVars, batchVars>>

\* selected = auto_select_articles(articles, config), on the scored list as
\* newsletter_service.py calls it or after classify_all_articles.
AutoSelect(cfg) ==
    /\ pc \in {"scored", "classified"}
    /\ pc' = "selected"
    /\ selCfg' = <<cfg>>
    /\ selection' = auto_select_articles(scored, cfg)
    /\ UNCHANGED <<fetched, scoreCfg, scored, classifyMode, classified>>
    /\ UNCHANGED <<learnerVars, cacheVars, callVars, batchVars>>

(***************************************************************************)
(* Personalization engine (services/personalization_service.py)            *)
(***************************************************************************)
\* A Counter, or a dict, in insertion order: a sequence of <<key, value>>.
CounterKeys(c) == {c[i][1] : i \in 1..Len(c)}

CounterGet(c, key) ==
    IF key \in CounterKeys(c)
    THEN (CHOOSE i \in 1..Len(c) : c[i][1] = key) \* keys are unique
    ELSE 0

CounterValue(c, key) == IF key \in CounterKeys(c) THEN c[CounterGet(c, key)][2] ELSE 0

\* counter[key] += n
CounterAdd(c, key, n) ==
    IF key \in CounterKeys(c)
    THEN [i \in 1..Len(c) |-> IF c[i][1] = key THEN <<key, c[i][2] + n>> ELSE c[i]]
    ELSE Append(c, <<key, n>>)

\* counter.update(other): other's items are added in other's order.
RECURSIVE CounterUpdate(_, _)
CounterUpdate(c, other) ==
    IF other = <<>> THEN c
    ELSE CounterUpdate(CounterAdd(c, other[1][1], other[1][2]), Tail(other))

\* counter.update(list): each element counts once.
RECURSIVE CounterUpdateList(_, _)
CounterUpdateList(c, keys) ==
    IF keys = <<>> THEN c
    ELSE CounterUpdateList(CounterAdd(c, keys[1], 1), Tail(keys))

\* sorted(items, key=count, reverse=True): equal counts keep insertion order.
RECURSIVE InsertByCount(_, _)
InsertByCount(sorted, x) ==
    IF sorted = <<>> THEN <<x>>
    ELSE IF sorted[1][2] >= x[2] THEN <<sorted[1]>> \o InsertByCount(Tail(sorted), x)
    ELSE <<x>> \o sorted

RECURSIVE SortByCountDesc(_)
SortByCountDesc(c) ==
    IF c = <<>> THEN <<>>
    ELSE InsertByCount(SortByCountDesc(SubSeq(c, 1, Len(c) - 1)), c[Len(c)])

\* counter.most_common(n)
most_common(c, n) == Prefix(SortByCountDesc(c), n)

MaxCount(c) == CHOOSE m \in {c[i][2] : i \in 1..Len(c)} : \A i \in 1..Len(c) : c[i][2] <= m

RECURSIVE Gcd(_, _)
Gcd(a, b) == IF b = 0 THEN a ELSE Gcd(b, a % b)

\* The float n / d (d > 0), kept exact as a fraction in lowest terms.
Frac(n, d) == LET g == Gcd(n, d) IN <<n \div g, d \div g>>

\* Words of review titles: str.strip('.,!?;:"\'') and the stop-word list of
\* _extract_keywords.
Strip(w) ==
    CASE w = "model," -> "model"
      [] w = "about," -> "about"
      [] OTHER -> w

Stopwords ==
    {"the", "and", "with", "from", "this", "that", "will", "have", "been", "are", "your",
     "more", "about", "into", "than", "just", "which", "some", "would", "could", "should",
     "their", "after", "where", "what", "when", "these", "other", "very", "between"}

LowerTitleWord(w) == IF w = "AI" THEN "ai" ELSE w

\* _extract_keywords(text), text being a sequence of whitespace-separated words.
_extract_keywords(text) ==
    LET words == [i \in 1..Len(text) |-> LowerTitleWord(text[i])]
        keep == SelectSeq(words, LAMBDA w : Len(Strip(w)) > 4 /\ w \notin Stopwords)
    IN [i \in 1..Len(keep) |-> Strip(keep[i])]

\* Number of sources and categories kept as preferred; keywords kept.
TopPreferred == 5

TopKeywords == 20

\* PreferenceProfile(): dicts are sequences of <<key, value>> in insertion
\* order, floats are fractions (multipliers, selection_rate) or hundredths
\* (scores).
EmptyProfile ==
    [source_preferences |-> <<>>, category_preferences |-> <<>>, keyword_preferences |-> <<>>,
     score_threshold |-> 0, score_range |-> <<0, 1000>>, total_selections |-> 0,
     total_available |-> 0, selection_rate |-> <<0, 1>>, preferred_categories |-> <<>>,
     preferred_sources |-> <<>>]

\* The aggregate a run starts from when there is no cache.
EmptyStats ==
    [total_selections |-> 0, total_available |-> 0, source_selections |-> <<>>,
     category_selections |-> <<>>, all_keywords |-> <<>>, scores_min |-> <<>>,
     scores_max |-> <<>>]

\* A selected entry of a review file; score is <<hundredths>>, or <<>> for a
\* value that is not a number.
Selected(source, category, title, score) ==
    [source |-> source, category |-> category, title |-> title, score |-> score]

\* A review file: kind "ok" is a JSON object with categories (available
\* articles in all) and selected; "corrupt" cannot be read as JSON;
\* "wrong_shape" is JSON of another shape (a list, or an object whose
\* selected entries are not objects).
Review(available, selected) == [kind |-> "ok", available |-> available, selected |-> selected]

CorruptReview == [kind |-> "corrupt", available |-> 0, selected |-> <<>>]

WrongShapeReview == [kind |-> "wrong_shape", available |-> 0, selected |-> <<>>]

ReviewPool ==
    { Review(2, << Selected("Source A", "governance", <<"AI", "safety", "model,">>, <<850>>) >>),
      Review(3, << Selected("Source B", "capabilities", <<"about", "model">>, <<1200>>),
                   Selected("Source A", "governance", <<"safety", "about,">>, <<>>) >>),
      Review(2, <<>>),
      CorruptReview,
      WrongShapeReview }

FileNames == 1..MaxFiles

\* _process_review_file: <<stats>>, or <<>> for None.
RECURSIVE SelectedStats(_, _)
SelectedStats(selected, stats) ==
    IF selected = <<>> THEN stats
    ELSE LET article == selected[1]
         IN SelectedStats(Tail(selected),
               [stats EXCEPT
                  !.source_selections = CounterAdd(@, article.source, 1),
                  !.category_selections = CounterAdd(@, article.category, 1),
                  !.all_keywords = CounterUpdateList(@, _extract_keywords(article.title)),
                  !.scores = @ \o article.score])

\* review_data.get(...) and article.get(...) are outside the try block: on
\* JSON of the wrong shape they raise AttributeError out of the method.
_process_review_file_Raises(review) == review.kind = "wrong_shape"

_process_review_file(review) ==
    IF review.kind # "ok" THEN <<>>
    ELSE << SelectedStats(review.selected,
               [selected_count |-> Len(review.selected), available_count |-> review.available,
                source_selections |-> <<>>, category_selections |-> <<>>,
                all_keywords |-> <<>>, scores |-> <<>>]) >>

\* The builder with boost = count / max_count, without the base of 1.0.
_build_profile_from_stats_NoBase(stats) ==
    LET boosts(c) == [i \in 1..Len(c) |-> <<c[i][1], Frac(c[i][2], MaxCount(c))>>]
        keys(c) == [i \in 1..Len(c) |-> c[i][1]]
        ranged == stats.scores_min # <<>> /\ stats.scores_max # <<>>
    IN [source_preferences |-> boosts(stats.source_selections),
        category_preferences |-> boosts(stats.category_selections),
        keyword_preferences |-> most_common(stats.all_keywords, TopKeywords),
        score_threshold |-> IF ranged THEN stats.scores_min[1] ELSE 0,
        score_range |-> IF ranged THEN <<stats.scores_min[1], stats.scores_max[1]>>
                        ELSE <<0, 1000>>,
        total_selections |-> stats.total_selections,
        total_available |-> stats.total_available,
        selection_rate |-> IF stats.total_available > 0
                           THEN Frac(stats.total_selections, stats.total_available)
                           ELSE <<0, 1>>,
        preferred_categories |-> keys(most_common(stats.category_selections, TopPreferred)),
        preferred_sources |-> keys(most_common(stats.source_selections, TopPreferred))]

\* _build_profile_from_stats(stats)
_build_profile_from_stats(stats) ==
    LET boosts(c) == [i \in 1..Len(c) |-> <<c[i][1], Frac(MaxCount(c) + c[i][2], MaxCount(c))>>]
        keys(c) == [i \in 1..Len(c) |-> c[i][1]]
        ranged == stats.scores_min # <<>> /\ stats.scores_max # <<>>
    IN [source_preferences |-> boosts(stats.source_selections),
        category_preferences |-> boosts(stats.category_selections),
        keyword_preferences |-> most_common(stats.all_keywords, TopKeywords),
        score_threshold |-> IF ranged THEN stats.scores_min[1] ELSE 0,
        score_range |-> IF ranged THEN <<stats.scores_min[1], stats.scores_max[1]>>
                        ELSE <<0, 1000>>,
        total_selections |-> stats.total_selections,
        total_available |-> stats.total_available,
        selection_rate |-> IF stats.total_available > 0
                           THEN Frac(stats.total_selections, stats.total_available)
                           ELSE <<0, 1>>,
        preferred_categories |-> keys(most_common(stats.category_selections, TopPreferred)),
        preferred_sources |-> keys(most_common(stats.source_selections, TopPreferred))]

\* Content of profile_cache.json that _save_cache did not write: "corrupt" is
\* not JSON, "empty_object" is {}, "no_processed_files" is an object with
\* stats only, "no_stats" an object with processed_files only.
DamagedKinds == {"corrupt", "empty_object", "no_processed_files", "no_stats"}

DamagedCache(kind) ==
    [kind |-> kind, processed_files |-> {}, stats |-> EmptyStats, last_updated |-> 0]

\* _load_cache(): <<data>>, or <<>> for None (no file, or a file that does
\* not parse).  The Counters come back with the keys in the saved order.
_load_cache(file) ==
    IF file = <<>> THEN <<>>
    ELSE IF file[1].kind = "corrupt" THEN <<>>
    ELSE file

\* `if cache_data` (251-252): None and the empty object are false.
Truthy(cache_data) == cache_data # <<>> /\ cache_data[1].kind # "empty_object"

\* cache_data['processed_files'] or cache_data['stats'] raises KeyError.
CacheLookupRaises(cache_data) ==
    Truthy(cache_data) /\ cache_data[1].kind \in {"no_processed_files", "no_stats"}

\* _save_cache(processed_files, stats): the new content of profile_cache.json.
_save_cache(processed_files, stats, now) ==
    << [kind |-> "ok", processed_files |-> processed_files, stats |-> stats,
        last_updated |-> now] >>

SetMin(S) == CHOOSE x \in S : \A y \in S : x <= y

SetMax(S) == CHOOSE x \in S : \A y \in S : x >= y

\* The loop over sorted(new_files) of analyze_historical_selections (299-309):
\* the aggregate after the loop, the scores collected, the files opened, and
\* whether _process_review_file raised (which ends the loop).
RECURSIVE ProcessNewFiles(_, _, _)
ProcessNewFiles(todo, files, acc) ==
    IF todo = {} THEN acc
    ELSE LET name == SetMin(todo)
             file_stats == _process_review_file(files[name][1])
             opened == [acc EXCEPT !.reads = @ \cup {name}]
         IN IF _process_review_file_Raises(files[name][1])
            THEN [opened EXCEPT !.raised = TRUE]
            ELSE IF file_stats = <<>>
            THEN ProcessNewFiles(todo \ {name}, files, opened)
            ELSE ProcessNewFiles(todo \ {name}, files,
                    [opened EXCEPT
                       !.stats.total_selections = @ + file_stats[1].selected_count,
                       !.stats.total_available = @ + file_stats[1].available_count,
                       !.stats.source_selections =
                            CounterUpdate(@, file_stats[1].source_selections),
                       !.stats.category_selections =
                            CounterUpdate(@, file_stats[1].category_selections),
                       !.stats.all_keywords = CounterUpdate(@, file_stats[1].all_keywords),
                       !.new_scores = @ \o file_stats[1].scores])

\* The running minimum and maximum (311-326).
MergeScores(stats, new_scores) ==
    IF new_scores = <<>> THEN stats
    ELSE LET batch_min == SetMin(Range(new_scores))
             batch_max == SetMax(Range(new_scores))
         IN [stats EXCEPT
               !.scores_min = IF @ = <<>> THEN <<batch_min>> ELSE <<Min(@[1], batch_min)>>,
               !.scores_max = IF @ = <<>> THEN <<batch_max>> ELSE <<Max(@[1], batch_max)>>]

\* analyze_historical_selections() of an instance whose preference_profile
\* is prof, on the directory content files with cache file: the profile the
\* instance holds and returns, the cache file afterwards, the review files
\* opened, and whether the cache was written.
analyze_historical_selections(files, file, prof, now) ==
    LET cache_data == _load_cache(file)
        loaded_files == IF Truthy(cache_data) THEN cache_data[1].processed_files ELSE {}
        loaded_stats == IF Truthy(cache_data) THEN cache_data[1].stats ELSE EmptyStats
        review_files == {n \in FileNames : files[n] # <<>>}
        missing_files == loaded_files \ review_files
        rebuild == missing_files # {}
        new_files == IF rebuild THEN review_files ELSE review_files \ loaded_files
        cached_files == IF rebuild THEN {} ELSE loaded_files
        pass == ProcessNewFiles(new_files, files,
                    [stats |-> IF rebuild THEN EmptyStats ELSE loaded_stats,
                     new_scores |-> <<>>, reads |-> {}, raised |-> FALSE])
        aggregated_stats == MergeScores(pass.stats, pass.new_scores)
    IN IF CacheLookupRaises(cache_data)
       \* except Exception (349-351)
       THEN [profile |-> prof, cacheFile |-> file, reads |-> {}, saved |-> FALSE]
       ELSE IF review_files = {}
       THEN [profile |-> prof, cacheFile |-> file, reads |-> {}, saved |-> FALSE]
       ELSE IF new_files = {} /\ missing_files = {}
       THEN [profile |-> _build_profile_from_stats(loaded_stats), cacheFile |-> file,
             reads |-> {}, saved |-> FALSE]
       ELSE IF pass.raised
       \* except Exception (349-351)
       THEN [profile |-> prof, cacheFile |-> file, reads |-> pass.reads, saved |-> FALSE]
       ELSE [profile |-> _build_profile_from_stats(aggregated_stats),
             cacheFile |-> _save_cache(cached_files \cup new_files, aggregated_stats, now),
             reads |-> pass.reads, saved |-> TRUE]

(***************************************************************************)
(* The learner and its output directory                                    *)
(***************************************************************************)
InitLearner ==
    /\ disk = [n \in FileNames |-> <<>>]
    /\ cacheFile = <<>>
    /\ profile = EmptyProfile
    /\ reads = {}
    /\ clock = 0
    /\ streak = 0
    /\ touched = {}

\* The curation workflow writes review_<name>.json: a new file, or new
\* content for an existing one.
WriteFile(name, content) ==
    /\ disk[name] # <<content>>
    /\ disk' = [disk EXCEPT ![name] = <<content>>]
    /\ streak' = 0
    /\ touched' = IF cacheFile # <<>> /\ name \in cacheFile[1].processed_files
                  THEN touched \cup {name} ELSE touched
    /\ reads' = {}
    /\ UNCHANGED <<cacheFile, profile, clock>>
    /\ UNCHANGED <<pipelineVars, cacheVars, callVars, batchVars>>

\* A review file is deleted.
DeleteFile(name) ==
    /\ disk[name] # <<>>
    /\ disk' = [disk EXCEPT ![name] = <<>>]
    /\ streak' = 0
    /\ reads' = {}
    /\ UNCHANGED <<cacheFile, profile, clock, touched>>
    /\ UNCHANGED <<pipelineVars, cacheVars, callVars, batchVars>>

\* PersonalizationService(output_dir): a new instance replaces the live one.
NewService ==
    /\ profile' = EmptyProfile
    /\ streak' = 0
    /\ reads' = {}
    /\ UNCHANGED <<disk, cacheFile, clock, touched>>
    /\ UNCHANGED <<pipelineVars, cacheVars, callVars, batchVars>>

\* service.analyze_historical_selections()
Analyze ==
    /\ clock < MaxClock
    /\ LET run == analyze_historical_selections(disk, cacheFile, profile, clock + 1)
       IN /\ profile' = run.profile
          /\ cacheFile' = run.cacheFile
          /\ reads' = run.reads
          /\ touched' = IF run.saved THEN touched \ run.reads ELSE touched
    /\ clock' = clock + 1
    /\ streak' = Min(streak + 1, 2)
    /\ UNCHANGED disk
    /\ UNCHANGED <<pipelineVars, cacheVars, callVars, batchVars>>

\* profile_cache.json is overwritten with content the learner did not write.
DamageCache(kind) ==
    /\ cacheFile # <<DamagedCache(kind)>>
    /\ cacheFile' = <<DamagedCache(kind)>>
    /\ streak' = 0
    /\ reads' = {}
    /\ touched' = {}
    /\ UNCHANGED <<disk, profile, clock>>
    /\ UNCHANGED <<pipelineVars, cacheVars, callVars, batchVars>>

\* profile_cache.json is deleted.
RemoveCache ==
    /\ cacheFile # <<>>
    /\ cacheFile' = <<>>
    /\ streak' = 0
    /\ reads' = {}
    /\ touched' = {}
    /\ UNCHANGED <<disk, profile, clock>>
    /\ UNCHANGED <<pipelineVars, cacheVars, callVars, batchVars>>

(***************************************************************************)
(* Item cache (cache.py)                                                   *)
(***************************************************************************)
\* Seconds on the clock of time.time() (cap of the model).
MaxTime == 3

\* ttl_seconds values an ArticleCache is constructed with.
TtlPool == {1, 2}

\* Caller-chosen cache keys and payloads.
CacheKeys == {"articles", "a b", "a_b"}

Payloads == {"v1", "v2"}

\* "".join(c if c.isalnum() else "_" for c in key)
SafeKey(key) == IF key = "a b" THEN "a_b" ELSE key

\* _get_cache_file(key): the file name without the directory and ".json".
_get_cache_file(key) == SafeKey(key)

CacheFiles == {_get_cache_file(k) : k \in CacheKeys}

\* The content of an entry file: complete JSON written by set, or what is on
\* disk between open(cache_file, 'w') and the end of json.dump.
Entry(created_at, data) == [kind |-> "ok", created_at |-> created_at, data |-> data]

PartialEntry == [kind |-> "partial", created_at |-> 0, data |-> ""]

\* No call yet.
NoCall == [op |-> "none", key |-> "", value |-> <<>>, read |-> "absent", at |-> 0]

\* time.time() - created_at > self.ttl, read with >= in place of >.
Expired_AtTtl(entry, t) == t - entry.created_at >= ttl

\* time.time() - created_at > self.ttl
Expired(entry, t) == t - entry.created_at > ttl

InitCache ==
    /\ cacheDir = [f \in CacheFiles |-> <<>>]
    /\ timeNow = 0
    /\ ttl \in TtlPool
    /\ lastSet = [f \in CacheFiles |-> <<>>]
    /\ cacheCall = NoCall
    /\ writing = <<>>

\* No item cache in use: the state of the cache variables in the other specifications.
IdleCache ==
    /\ cacheDir = [f \in CacheFiles |-> <<>>]
    /\ timeNow = 0
    /\ ttl = 1
    /\ lastSet = [f \in CacheFiles |-> <<>>]
    /\ cacheCall = NoCall
    /\ writing = <<>>

\* ArticleCache.set(key, value), the whole call.
CacheSet(key, value) ==
    /\ writing = <<>>
    /\ cacheDir' = [cacheDir EXCEPT ![_get_cache_file(key)] = <<Entry(timeNow, value)>>]
    /\ lastSet' = [lastSet EXCEPT ![_get_cache_file(key)] = <<Entry(timeNow, value)>>]
    /\ cacheCall' = [op |-> "set", key |-> key, value |-> <<value>>, read |-> "absent",
                                at |-> timeNow]
    /\ UNCHANGED <<timeNow, ttl, writing>>
    /\ UNCHANGED <<pipelineVars, learnerVars, callVars, batchVars>>

\* ArticleCache.set up to and including open(cache_file, 'w'): cache_data is
\* built and the file is truncated.
CacheSetOpen(key, value) ==
    /\ writing = <<>>
    /\ writing' = <<[file |-> _get_cache_file(key), entry |-> Entry(timeNow, value), key |-> key]>>
    /\ cacheDir' = [cacheDir EXCEPT ![_get_cache_file(key)] = <<PartialEntry>>]
    /\ UNCHANGED <<timeNow, ttl, lastSet, cacheCall>>
    /\ UNCHANGED <<pipelineVars, learnerVars, callVars, batchVars>>

\* The rest of ArticleCache.set: json.dump and the close of the file.
CacheSetDump ==
    /\ writing # <<>>
    /\ cacheDir' = [cacheDir EXCEPT ![writing[1].file] = <<writing[1].entry>>]
    /\ lastSet' = [lastSet EXCEPT ![writing[1].file] = <<writing[1].entry>>]
    /\ writing' = <<>>
    /\ UNCHANGED <<timeNow, ttl, cacheCall>>
    /\ UNCHANGED <<pipelineVars, learnerVars, callVars, batchVars>>

\* ArticleCache.get(key)
CacheGet(key) ==
    LET f == _get_cache_file(key)
    IN /\ IF cacheDir[f] = <<>>
          THEN /\ cacheCall' = [op |-> "get", key |-> key, value |-> <<>>, read |-> "absent",
                                at |-> timeNow]
               /\ UNCHANGED cacheDir
          ELSE IF cacheDir[f][1].kind = "partial"
          \* json.load raises: except Exception returns None
          THEN /\ cacheCall' = [op |-> "get", key |-> key, value |-> <<>>, read |-> "partial",
                                at |-> timeNow]
               /\ UNCHANGED cacheDir
          ELSE IF Expired(cacheDir[f][1], timeNow)
          THEN /\ cacheCall' = [op |-> "get", key |-> key, value |-> <<>>, read |-> "ok",
                                at |-> timeNow]
               /\ cacheDir' = [cacheDir EXCEPT ![f] = <<>>]
          ELSE /\ cacheCall' = [op |-> "get", key |-> key, value |-> <<cacheDir[f][1].data>>,
                                read |-> "ok",
                                at |-> timeNow]
               /\ UNCHANGED cacheDir
       /\ UNCHANGED <<timeNow, ttl, lastSet, writing>>
       /\ UNCHANGED <<pipelineVars, learnerVars, callVars, batchVars>>

\* ArticleCache.cleanup_expired()
CacheCleanupExpired ==
    /\ cacheDir' = [f \in CacheFiles |->
                      IF cacheDir[f] # <<>> /\ cacheDir[f][1].kind = "ok"
                         /\ Expired(cacheDir[f][1], timeNow)
                      THEN <<>> ELSE cacheDir[f]]
    /\ cacheCall' = [op |-> "cleanup_expired", key |-> "", value |-> <<>>, read |-> "absent",
                                at |-> timeNow]
    /\ UNCHANGED <<timeNow, ttl, lastSet, writing>>
    /\ UNCHANGED <<pipelineVars, learnerVars, callVars, batchVars>>

\* The clock advances by one second.
Tick ==
    /\ timeNow < MaxTime
    /\ timeNow' = timeNow + 1
    /\ UNCHANGED <<cacheDir, ttl, lastSet, cacheCall, writing>>
    /\ UNCHANGED <<pipelineVars, learnerVars, callVars, batchVars>>

(***************************************************************************)
(* A classification batch, call by call (processors/section_classifier.py) *)
(***************************************************************************)
\* Longest article list of a batch followed call by call.
MaxBatch == 2

NoBatch == [articles |-> <<>>, api_key |-> FALSE, i |-> 1, waiting |-> FALSE,
            reply |-> <<>>, out |-> <<>>]

\* classify_all_articles(articles, config, use_sentiment_api=True) with
\* google.generativeai importable, about to enter its loop.
Batches ==
    { [NoBatch EXCEPT !.articles = l, !.api_key = k] :
        l \in DistinctSeqs(ArticlePool, MaxBatch), k \in BOOLEAN }

\* The article the loop is at.
BatchArticle == batch.articles[batch.i]

\* classify_article_section reaches detect_sentiment, and detect_sentiment
\* reaches model.generate_content (259-262, 112-140).
NeedsOracle(article, api_key) ==
    /\ ~has_grain_keywords(article)
    /\ ~(article.category = "tools" \/ has_tool_keywords(article.title, article.summary))
    /\ ~(is_research_paper(article) \/ is_long_form(article))
    /\ api_key

\* How the current article meets the oracle, once a reply (if needed) is in.
BatchMode ==
    [use_sentiment_api |-> TRUE, gemini_available |-> TRUE, api_key |-> batch.api_key,
     reply |-> IF batch.reply = <<>> THEN "neutral" ELSE batch.reply[1]]

\* response = model.generate_content(prompt): the request is sent, with no
\* timeout argument, and the loop blocks on it.
BatchCall ==
    /\ batch.i <= Len(batch.articles)
    /\ NeedsOracle(BatchArticle, batch.api_key)
    /\ ~batch.waiting /\ batch.reply = <<>>
    /\ batch' = [batch EXCEPT !.waiting = TRUE]
    /\ UNCHANGED <<pipelineVars, learnerVars, cacheVars, callVars>>

\* The oracle answers the pending request: a label, text that is no label,
\* or an error.
OracleAnswer(reply) ==
    /\ batch.waiting
    /\ batch' = [batch EXCEPT !.waiting = FALSE, !.reply = <<reply>>]
    /\ UNCHANGED <<pipelineVars, learnerVars, cacheVars, callVars>>

\* The rest of the loop body for the current article (309-319).
BatchClassify ==
    /\ batch.i <= Len(batch.articles)
    /\ ~batch.waiting
    /\ NeedsOracle(BatchArticle, batch.api_key) => batch.reply # <<>>
    /\ batch' = [batch EXCEPT !.out = Append(@, ClassifyOne(BatchArticle, BatchMode)),
                              !.i = @ + 1, !.reply = <<>>]
    /\ UNCHANGED <<pipelineVars, learnerVars, cacheVars, callVars>>

(***************************************************************************)
(* Selection likelihood (services/personalization_service.py)              *)
(***************************************************************************)
\* Review files with a lowest selected score below, at and above 10.0.
PredictReviewPool ==
    { Review(2, << Selected("Source A", "governance", <<"AI", "safety", "model,">>, <<850>>) >>),
      Review(2, << Selected("Source B", "capabilities", <<"about", "model">>, <<1000>>) >>),
      Review(3, << Selected("Source B", "capabilities", <<"about", "model">>, <<1200>>),
                   Selected("Source A", "governance", <<"safety", "about,">>, <<>>) >>) }

\* Article dictionaries handed to predict_selection_likelihood; score is
\* <<hundredths>>, or <<>> for a missing or non-numeric score.
PredictArticles ==
    { [source |-> src, category |-> cat, title |-> title, score |-> score] :
        src \in {"Source A", "Other"}, cat \in {"capabilities", ""},
        title \in {<<"AI", "safety", "models">>, <<>>},
        score \in {<<>>, <<0>>, <<925>>, <<1100>>, <<2000>>} }

NoPrediction == <<>>

\* The outcome of a call: the value returned, or raised.
Returned(value) == [raised |-> FALSE, value |-> value]

Raised == [raised |-> TRUE, value |-> 0]

\* max(0, min(100, num / den)) rounded down, for den # 0.
ClampedPercent(num, den) ==
    LET n == IF den < 0 THEN 0 - num ELSE num
        d == IF den < 0 THEN 0 - den ELSE den
    IN IF n <= 0 THEN 0 ELSE IF n >= 100 * d THEN 100 ELSE n \div d

\* 2 for every profile keyword found in the lower-cased title.
KeywordBoost(title, keyword_preferences) ==
    2 * Cardinality({ i \in 1..Len(keyword_preferences) :
                        Contains([j \in 1..Len(title) |-> LowerTitleWord(title[j])],
                                 <<LowerTitleWord(keyword_preferences[i][1])>>) })

\* predict_selection_likelihood(article, profile); the score is normalized by
\* dividing by 10.0 - score_threshold.
predict_selection_likelihood(article, prof) ==
    IF prof.total_selections = 0 THEN Returned(50)
    ELSE LET score == IF article.score = <<>> THEN 0 ELSE article.score[1]
             den == 1000 - prof.score_threshold
         IN IF prof.score_threshold > 0 /\ den = 0 THEN Raised
            ELSE LET base == IF prof.score_threshold > 0
                             THEN ClampedPercent(80 * (score - prof.score_threshold), den)
                             ELSE 50
                     src == IF article.source \in Range(prof.preferred_sources) THEN 10 ELSE 0
                     cat == IF article.category \in Range(prof.preferred_categories) THEN 10 ELSE 0
                     kw == Min(KeywordBoost(article.title, prof.keyword_preferences), 10)
                 IN Returned(Max(0, Min(100, base + src + cat + kw)))

IdleCalls == prediction = NoPrediction /\ made = <<>> /\ normalized = <<>> /\ boosted = <<>>

\* No classification batch in progress.
IdleBatch == batch = NoBatch

\* service.predict_selection_likelihood(article) with the learned profile.
Predict(article) ==
    /\ prediction' = <<predict_selection_likelihood(article, profile)>>
    /\ prediction' # prediction
    /\ UNCHANGED <<pipelineVars, learnerVars, cacheVars, made, normalized, boosted, batch>>

\* Profiles handed to boost_article_score: what the learner builds from
\* review files in which the keyword safety was selected freq times.
BoostFrequencies == {1, 20, 401}

BoostProfiles ==
    { [EmptyProfile EXCEPT
          !.source_preferences = << <<"Source A", <<2, 1>>>>, <<"Source B", <<3, 2>>>> >>,
          !.category_preferences = << <<"capabilities", <<2, 1>>>> >>,
          !.keyword_preferences = << <<"safety", freq>>, <<"model", 1>> >>,
          !.total_selections = freq + 1,
          !.total_available = freq + 1,
          !.selection_rate = <<1, 1>>,
          !.preferred_sources = <<"Source A", "Source B">>,
          !.preferred_categories = <<"capabilities">>] :
        freq \in BoostFrequencies }

BoostArticles ==
    { [source |-> src, category |-> cat, title |-> title, score |-> score] :
        src \in {"Source A", "Source B", "Other"}, cat \in {"capabilities", ""},
        title \in {<<"AI", "safety", "models">>, <<"AI", "safety">>, <<>>},
        score \in {<<>>, <<0>>, <<925>>, <<1100>>} }

\* dict lookup in a list of <<key, multiplier>>: the multiplier, or <<1, 1>>
\* (no boost) for a key that is not there.
MultiplierOf(prefs, key) ==
    IF \E i \in 1..Len(prefs) : prefs[i][1] = key
    THEN prefs[CHOOSE i \in 1..Len(prefs) : prefs[i][1] = key][2]
    ELSE <<1, 1>>

\* frequency * 0.1 for every profile keyword found in the title, in hundredths.
KeywordContribution(title, keyword_preferences) ==
    LET hit(i) == Contains([j \in 1..Len(title) |-> LowerTitleWord(title[j])],
                           <<LowerTitleWord(keyword_preferences[i][1])>>)
        sum[i \in 0..Len(keyword_preferences)] ==
            IF i = 0 THEN 0
            ELSE sum[i - 1] + (IF hit(i) THEN keyword_preferences[i][2] * 10 ELSE 0)
    IN sum[Len(keyword_preferences)]

\* boost_article_score(article, profile), in hundredths.
boost_article_score(article, prof) ==
    LET original_score == IF article.score = <<>> THEN 0 ELSE article.score[1]
        sm == MultiplierOf(prof.source_preferences, article.source)
        cm == MultiplierOf(prof.category_preferences, article.category)
        kw == KeywordContribution(article.title, prof.keyword_preferences)
        den == sm[2] * cm[2]
        \* original + (sm - 1) * original + (cm - 1) * original + kw, over den
        num == original_score * den + original_score * (sm[1] - sm[2]) * cm[2]
                  + original_score * (cm[1] - cm[2]) * sm[2] + kw * den
    IN Round2((num * 100) \div den)

\* service.boost_article_score(article, profile)
Boost(article, prof) ==
    /\ boosted' = <<[article |-> article, profile |-> prof,
                     value |-> boost_article_score(article, prof)]>>
    /\ boosted' # boosted
    /\ UNCHANGED <<pipelineVars, learnerVars, cacheVars, prediction, made, normalized, batch>>

(***************************************************************************)
(* Article construction (sources/rss_fetcher.py)                           *)
(***************************************************************************)
\* Arguments of Article(...): <<s>> is the string s, <<>> is None; published
\* is <<age in days>> for a datetime and <<>> for anything else.
RawStrings(text) == {<<>>, <<"">>, <<"  ">>, <<text>>}

RawArticles ==
    [title : RawStrings("Title"), url : RawStrings("https://example.com/a"),
     source : RawStrings("Feed"), priority : {"high", "urgent"},
     summary : {<<>>, <<"Summary">>}, published : {<<>>, <<2>>}]

\* str.strip() of the argument strings.
StripSpace(s) == IF s = "  " THEN "" ELSE s

\* `not x or not x.strip()` for an argument that is None or a string.
BlankOrMissing(x) == x = <<>> \/ x[1] = "" \/ StripSpace(x[1]) = ""

\* Article.__post_init__: the fields of the constructed object.
__post_init__(raw) ==
    [title |-> IF BlankOrMissing(raw.title) THEN "[No title]" ELSE raw.title[1],
     url |-> IF BlankOrMissing(raw.url) THEN "" ELSE raw.url[1],
     source |-> IF BlankOrMissing(raw.source) THEN "Unknown" ELSE raw.source[1],
     priority |-> IF raw.priority \notin {"low", "medium", "high"} THEN "medium"
                  ELSE raw.priority,
     summary |-> IF raw.summary = <<>> THEN "" ELSE raw.summary[1],
     published |-> IF raw.published = <<>> THEN 0 ELSE raw.published[1]]

\* article = Article(title, url, source, published, summary, priority=...)
Construct(raw) ==
    /\ made' = <<[raw |-> raw, article |-> __post_init__(raw)]>>
    /\ made' # made
    /\ UNCHANGED <<pipelineVars, learnerVars, cacheVars, prediction, normalized, boosted, batch>>

(***************************************************************************)
(* Specifications                                                          *)
(***************************************************************************)
Init == InitPipeline /\ InitLearner /\ IdleCache /\ IdleCalls /\ IdleBatch

Next ==
    \/ \E cfg \in PipelineScoreCfgs : ScoreArticles(cfg)
    \/ \E mode \in PipelineModes : ClassifyAll(mode)
    \/ \E cfg \in SelCfgs : AutoSelect(cfg)

\* A pipeline run: scoring, classification, selection.
Spec == Init /\ [][Next]_vars

NextScore == \E cfg \in ScoreCfgs : ScoreArticles(cfg)

\* score_articles over every scoring configuration.
SpecScore == Init /\ [][NextScore]_vars

InitRecency == FetchedPairs /\ InitLearner /\ IdleCache /\ IdleCalls /\ IdleBatch

\* score_articles over pairs of items that differ in age only.
SpecRecency == InitRecency /\ [][NextScore]_vars

NextClassify ==
    \/ \E cfg \in PipelineScoreCfgs : ScoreArticles(cfg)
    \/ \E mode \in ClassifyModes : ClassifyAll(mode)

\* classify_all_articles over every way of meeting the sentiment oracle.
SpecClassify == Init /\ [][NextClassify]_vars

InitOverlap == FetchedOverlaps /\ InitLearner /\ IdleCache /\ IdleCalls /\ IdleBatch

NextOverlap ==
    \/ \E cfg \in OverlapScoreCfgs : ScoreArticles(cfg)
    \/ \E mode \in ClassifyModes : ClassifyAll(mode)

\* Scoring and classification of items that match several section rules.
SpecOverlap == InitOverlap /\ [][NextOverlap]_vars

InitLearn == IdlePipeline /\ InitLearner /\ IdleCache /\ IdleCalls /\ IdleBatch

NextLearn ==
    \/ \E name \in FileNames, content \in ReviewPool : WriteFile(name, content)
    \/ \E name \in FileNames : DeleteFile(name)
    \/ NewService
    \/ Analyze

\* The learner over a changing directory of review files.
SpecLearn == InitLearn /\ [][NextLearn]_vars

InitCaching == IdlePipeline /\ InitLearner /\ InitCache /\ IdleCalls /\ IdleBatch

NextCache ==
    \/ \E key \in CacheKeys, value \in Payloads : CacheSet(key, value)
    \/ \E key \in CacheKeys : CacheGet(key)
    \/ CacheCleanupExpired
    \/ Tick

\* One caller of the item cache: calls follow one another.
SpecCache == InitCaching /\ [][NextCache]_vars

NextCacheConcurrent ==
    \/ \E key \in CacheKeys, value \in Payloads : CacheSetOpen(key, value)
    \/ CacheSetDump
    \/ \E key \in CacheKeys : CacheGet(key)
    \/ CacheCleanupExpired
    \/ Tick

\* A writer in set and a reader of the same cache directory, interleaved.
SpecCacheConcurrent == InitCaching /\ [][NextCacheConcurrent]_vars

NextPredict ==
    \/ \E name \in FileNames, content \in PredictReviewPool : WriteFile(name, content)
    \/ Analyze
    \/ \E article \in PredictArticles : Predict(article)

\* Likelihood predictions from the profiles the learner produces.
SpecPredict == InitLearn /\ [][NextPredict]_vars

NextProfiles ==
    \/ \E name \in FileNames, content \in PredictReviewPool : WriteFile(name, content)
    \/ \E name \in FileNames : DeleteFile(name)
    \/ NewService
    \/ Analyze

\* The learner over review files that all parse and have the expected shape.
SpecProfiles == InitLearn /\ [][NextProfiles]_vars

NextCacheLoss ==
    \/ \E name \in FileNames, content \in ReviewPool \ {WrongShapeReview} :
          WriteFile(name, content)
    \/ \E kind \in DamagedKinds : DamageCache(kind)
    \/ RemoveCache
    \/ Analyze

\* The learner when profile_cache.json is lost or damaged between runs.
SpecCacheLoss == InitLearn /\ [][NextCacheLoss]_vars

NextNormalize == \E raw \in RawTopicLists : Normalize(raw)

\* Topic lists with well-formed and malformed weights, normalized.
SpecNormalize == InitLearn /\ [][NextNormalize]_vars

NextBoost == \E article \in BoostArticles, prof \in BoostProfiles : Boost(article, prof)

\* Personalized scores for profiles with rare and frequent keywords.
SpecBoost == InitLearn /\ [][NextBoost]_vars

InitBatch == IdlePipeline /\ InitLearner /\ IdleCache /\ IdleCalls /\ batch \in Batches

NextBatch ==
    \/ BatchCall
    \/ \E reply \in OracleReplies : OracleAnswer(reply)
    \/ BatchClassify

\* A classification batch and its oracle; the oracle need not answer.
SpecBatch == InitBatch /\ [][NextBatch]_vars /\ WF_vars(BatchCall) /\ WF_vars(BatchClassify)

NextConstruct == \E raw \in RawArticles : Construct(raw)

\* Articles constructed from every combination of present, empty and blank fields.
SpecConstruct == InitLearn /\ [][NextConstruct]_vars

(***************************************************************************)
(* Properties                                                              *)
(***************************************************************************)
\* Position of the article with the given URL in a list of distinct articles.
IndexOfUrl(list, url) == CHOOSE i \in 1..Len(list) : list[i].url = url

\* The items of list appear in the order they have in input.
KeepsOrderOf(list, input) ==
    \A i, j \in 1..Len(list) :
        i < j => IndexOfUrl(input, list[i].url) < IndexOfUrl(input, list[j].url)

SortedByScoreDesc(list) == \A i, j \in 1..Len(list) : i < j => list[i].score >= list[j].score

\* The articles auto_select_articles treats as classified headline.
HeadlinePool(articles) ==
    {a \in Range(articles) : a.section = "headline" \/ a.section \notin SectionKeys}

\* C1: after auto_select_articles the sections headlines, bright_spots, tools
\* and deep_dives each hold at most their configured target_count items.
C1_QuotaRespected ==
    pc = "selected" =>
        /\ Len(selection.headlines) <= selCfg[1].target_headlines
        /\ Len(selection.bright_spots) <= selCfg[1].target_bright_spots
        /\ Len(selection.tools) <= selCfg[1].target_tools
        /\ Len(selection.deep_dives) <= selCfg[1].target_deep_dives

\* C2 as stated: if any article of the pool passed to auto_select_articles is
\* a Canadian government story, whatever its section, the headlines contain
\* a Canadian government story.
C2_CanadianStoryFromPool ==
    (pc = "selected" /\ \E a \in Range(scored) : is_canadian_government_story(a))
        => \E h \in Range(selection.headlines) : is_canadian_government_story(h)

\* C2 amended: if any article of the pool that is classified headline (or has
\* no known section) is a Canadian government story, the headlines contain a
\* Canadian government story.
C2_CanadianStoryFromHeadlines ==
    (pc = "selected" /\ \E a \in HeadlinePool(scored) : is_canadian_government_story(a))
        => \E h \in Range(selection.headlines) : is_canadian_government_story(h)

\* A selection with quota 0 for headlines, from a pool with a Canadian
\* government story among the headline articles and another one elsewhere.
C2_Witness ==
    /\ pc = "selected"
    /\ selCfg[1].target_headlines = 0
    /\ \E a \in HeadlinePool(scored) : is_canadian_government_story(a)
    /\ \E a \in Range(scored) \ HeadlinePool(scored) : is_canadian_government_story(a)
    /\ \E h \in Range(selection.headlines) : is_canadian_government_story(h)

\* C10 as stated: for an input sorted by score descending, every section
\* list of the selection, headlines included, keeps the input order.
C10_OrderKept ==
    (pc = "selected" /\ SortedByScoreDesc(scored)) =>
        /\ KeepsOrderOf(selection.headlines, scored)
        /\ KeepsOrderOf(selection.bright_spots, scored)
        /\ KeepsOrderOf(selection.tools, scored)
        /\ KeepsOrderOf(selection.deep_dives, scored)
        /\ KeepsOrderOf(selection.grain_quality, scored)

\* C10 amended: for an input sorted by score descending, every section list
\* of the selection other than headlines keeps the input order.
C10_OrderKeptOutsideHeadlines ==
    (pc = "selected" /\ SortedByScoreDesc(scored)) =>
        /\ KeepsOrderOf(selection.bright_spots, scored)
        /\ KeepsOrderOf(selection.tools, scored)
        /\ KeepsOrderOf(selection.deep_dives, scored)
        /\ KeepsOrderOf(selection.grain_quality, scored)

\* A selection from a sorted input with two bright spots of different score.
C10_Witness ==
    /\ pc = "selected"
    /\ SortedByScoreDesc(scored)
    /\ Len(selection.bright_spots) = 2
    /\ selection.bright_spots[1].score > selection.bright_spots[2].score

\* An exclude pattern, lower-cased, occurs in the lower-cased title+summary.
MatchesExcludePattern(article, cfg) ==
    \E p \in 1..Len(cfg.exclude_patterns) :
        Contains(LowerSeq(article.title \o article.summary), LowerSeq(cfg.exclude_patterns[p]))

TimesReturned(article) == Cardinality({j \in 1..Len(scored) : scored[j].url = article.url})

\* C6: an article matching an exclude pattern is absent from the list
\* score_articles returns, and every other article is in it exactly once.
C6_ExclusionPrecedence ==
    pc = "scored" =>
        \A i \in 1..Len(fetched) :
            TimesReturned(fetched[i]) =
                IF MatchesExcludePattern(fetched[i], scoreCfg[1]) THEN 0 ELSE 1

\* A scoring run that dropped an article over a pattern written in another
\* case than the text, and kept another article.
C6_Witness ==
    /\ pc = "scored"
    /\ \E i \in 1..Len(fetched) :
          /\ MatchesExcludePattern(fetched[i], scoreCfg[1])
          /\ ~\E p \in 1..Len(scoreCfg[1].exclude_patterns) :
                 Contains(LowerSeq(fetched[i].title \o fetched[i].summary),
                          scoreCfg[1].exclude_patterns[p])
          /\ TimesReturned(fetched[i]) = 0
    /\ \E i \in 1..Len(fetched) : TimesReturned(fetched[i]) = 1

\* C7: every score assigned by score_articles is at least 0.1 (floor 1.0 x
\* recency 0.2 x priority 0.5), hence never negative.
C7_ScoreFloor == pc = "scored" => \A i \in 1..Len(scored) : scored[i].score >= 10

\* C8: the list score_articles returns is ordered by score descending, and
\* articles of equal score are in their input order.
C8_SortedStable ==
    pc = "scored" =>
        \A i, j \in 1..Len(scored) :
            i < j => /\ scored[i].score >= scored[j].score
                     /\ scored[i].score = scored[j].score =>
                           IndexOfUrl(fetched, scored[i].url) < IndexOfUrl(fetched, scored[j].url)

\* A scoring run that moved an article up and returned two of equal score.
C8_Witness ==
    /\ pc = "scored"
    /\ \E i, j \in 1..Len(scored) :
          i < j /\ IndexOfUrl(fetched, scored[i].url) > IndexOfUrl(fetched, scored[j].url)
    /\ \E i, j \in 1..Len(scored) : i < j /\ scored[i].score = scored[j].score

\* C9: classify_all_articles puts every input article in exactly one of the
\* five section lists, the one named by its section field, and the lengths
\* of the lists sum to the number of input articles.
C9_TotalPartition ==
    pc = "classified" =>
        /\ \A i \in 1..Len(scored) :
              \E s \in SectionKeys :
                 /\ scored[i].section = s
                 /\ Cardinality({k \in 1..Len(classified[s]) : classified[s][k] = scored[i]}) = 1
                 /\ \A t \in SectionKeys \ {s} : scored[i] \notin Range(classified[t])
        /\ \A s \in SectionKeys : \A k \in 1..Len(classified[s]) : classified[s][k].section = s
        /\ Len(classified["headline"]) + Len(classified["bright_spot"]) + Len(classified["tool"])
              + Len(classified["deep_dive"]) + Len(classified["grain_quality"]) = Len(scored)

\* A classification of three articles into three different sections, one of
\* them the default.
C9_Witness ==
    /\ pc = "classified"
    /\ Len(scored) = 3
    /\ classified["headline"] # <<>>
    /\ Cardinality({s \in SectionKeys : classified[s] # <<>>}) = 3

\* A dict or Counter compared as Python compares dicts: without the order.
AsDict(c) == Range(c)

\* The aggregate a cache file holds (none of it when there is no file).
AggregateOf(file) ==
    LET stats == IF file = <<>> THEN EmptyStats ELSE file[1].stats
    IN [total_selections |-> stats.total_selections,
        total_available |-> stats.total_available,
        source_selections |-> AsDict(stats.source_selections),
        category_selections |-> AsDict(stats.category_selections),
        all_keywords |-> AsDict(stats.all_keywords),
        scores_min |-> stats.scores_min,
        scores_max |-> stats.scores_max]

\* A profile field for field, dicts without their order.
ProfileFields(p) ==
    [p EXCEPT !.source_preferences = AsDict(@), !.category_preferences = AsDict(@),
              !.keyword_preferences = AsDict(@)]

FilesOnDisk == {n \in FileNames : disk[n] # <<>>}

ProcessedFiles == IF cacheFile = <<>> THEN {} ELSE cacheFile[1].processed_files

\* The step is a run of analyze_historical_selections.
AnalyzeStep == clock' = clock + 1

\* What a new learner with no cache makes of the review files now on disk.
FromScratch(files) == analyze_historical_selections(files, <<>>, EmptyProfile, 0)

\* C3: a run after a processed review file was deleted leaves the profile and
\* the persisted aggregate of a learner that never processed that file.
C3_RebuildAfterDelete ==
    [][(AnalyzeStep /\ ProcessedFiles \ FilesOnDisk # {}) =>
          /\ ProfileFields(profile') = ProfileFields(FromScratch(disk').profile)
          /\ AggregateOf(cacheFile') = AggregateOf(FromScratch(disk').cacheFile)]_vars

\* C4: a run after review files were added, the learned ones all still there
\* and untouched, reads only the new files and leaves the aggregate a run
\* from scratch over the files on disk computes.
C4_IncrementalMerge ==
    [][(/\ AnalyzeStep
        /\ cacheFile # <<>>
        /\ ProcessedFiles \subseteq FilesOnDisk
        /\ touched = {}
        /\ FilesOnDisk \ ProcessedFiles # {}) =>
          /\ reads' = FilesOnDisk \ ProcessedFiles
          /\ AggregateOf(cacheFile') = AggregateOf(FromScratch(disk').cacheFile)]_vars

\* C5: a second run on unchanged review files leaves the cache file and the
\* profile exactly as after the first run and opens no review file.
C5_Idempotent ==
    [][(AnalyzeStep /\ streak >= 1) =>
          /\ profile' = profile
          /\ cacheFile' = cacheFile
          /\ reads' = {}]_vars

\* The sentiment oracle is enabled and its call fails: no API key, or an
\* exception (a network error, a reply that does not parse).
OracleFails(mode) ==
    /\ mode.use_sentiment_api
    /\ mode.gemini_available
    /\ (~mode.api_key \/ mode.reply = "error")

\* C11: when the enabled oracle fails, every article gets the section it
\* gets with the oracle disabled; an article that reaches rule 4 with a
\* positive keyword is labelled bright_spot.
C11_OracleFailureFallback ==
    (pc = "classified" /\ OracleFails(classifyMode[1])) =>
        \A i \in 1..Len(scored) :
            scored[i].section =
                classify_article_section(scored[i],
                    [classifyMode[1] EXCEPT !.use_sentiment_api = FALSE])

\* The directory without the review files that cannot be used.
Usable(files) ==
    [n \in FileNames |-> IF files[n] # <<>> /\ files[n][1].kind # "ok" THEN <<>> ELSE files[n]]

\* C12: a run that meets a new review file it cannot use (unreadable, not
\* JSON, or JSON of the wrong shape) skips only that file: the cache is saved
\* with every file on disk as processed, its aggregate is the one of the
\* usable files, and the profile is rebuilt from it.
C12_SkipsOnlyBadFile ==
    [][(/\ AnalyzeStep
        /\ ProcessedFiles \subseteq FilesOnDisk
        /\ touched = {}
        /\ \E n \in FilesOnDisk \ ProcessedFiles : disk[n][1].kind # "ok") =>
          /\ cacheFile' # <<>>
          /\ cacheFile'[1].processed_files = FilesOnDisk
          /\ AggregateOf(cacheFile') = AggregateOf(FromScratch(Usable(disk)).cacheFile)
          /\ ProfileFields(profile') =
                ProfileFields(_build_profile_from_stats(cacheFile'[1].stats))]_vars

\* C13: a read that interleaves with a set never finds a partially written
\* entry file: it finds no file, the complete previous content or the
\* complete new content.
C13_NoPartialRead == cacheCall.op = "get" => cacheCall.read # "partial"

\* C14: get(key) of an entry older than ttl_seconds returns None and leaves no
\* entry file for the key; get of an entry of age <= ttl_seconds returns the
\* payload last set.
C14_TtlRespected ==
    cacheCall.op = "get" =>
        LET f == _get_cache_file(cacheCall.key)
        IN IF lastSet[f] = <<>> THEN cacheCall.value = <<>>
           ELSE IF cacheCall.at - lastSet[f][1].created_at > ttl
           THEN cacheCall.value = <<>> /\ cacheDir[f] = <<>>
           ELSE cacheCall.value = <<lastSet[f][1].data>>

\* A get that returned the payload of an entry of age exactly ttl_seconds,
\* while an expired entry of another file is gone.
C14_Witness ==
    /\ cacheCall.op = "get"
    /\ LET f == _get_cache_file(cacheCall.key)
       IN /\ lastSet[f] # <<>>
          /\ cacheCall.at - lastSet[f][1].created_at = ttl
          /\ cacheCall.value = <<"v2">>
          /\ \E g \in CacheFiles \ {f} :
                /\ lastSet[g] # <<>>
                /\ cacheCall.at - lastSet[g][1].created_at > ttl
                /\ cacheDir[g] = <<>>

\* C15: predict_selection_likelihood, called with any profile the learner
\* produced and any article dictionary, does not raise and returns an integer
\* from 0 to 100.
C15_LikelihoodInRange ==
    prediction # NoPrediction =>
        /\ ~prediction[1].raised
        /\ prediction[1].value \in 0..100

\* C16: a constructed Article has a non-empty title, a non-empty source and a
\* non-empty URL.
C16_RequiredFieldsNonEmpty ==
    made # <<>> =>
        /\ made[1].article.title # ""
        /\ made[1].article.source # ""
        /\ made[1].article.url # ""

\* profile_cache.json is missing, or is not what _save_cache writes.
CacheUnusable == cacheFile = <<>> \/ cacheFile[1].kind \in DamagedKinds

\* C17: a run that finds profile_cache.json missing or corrupt (not JSON, or
\* JSON without processed_files or stats) opens every review file on disk and
\* leaves the profile of a run with no cache at all.
C17_DamagedCacheRebuilds ==
    [][(AnalyzeStep /\ CacheUnusable) =>
          /\ reads' = FilesOnDisk
          /\ ProfileFields(profile') = ProfileFields(FromScratch(disk').profile)]_vars

\* x and y are the same item but for the publication time.
SameButPublished(x, y) ==
    [x EXCEPT !.published = <<0>>, !.score = 0] = [y EXCEPT !.published = <<0>>, !.score = 0]

\* C18: of two articles that differ in publication time only, scored under
\* one configuration, the more recent one never has the lower score.
C18_RecentNeverLower ==
    \A i, j \in 1..Len(scored) :
        (SameButPublished(scored[i], scored[j])
            /\ scored[i].published[1] < scored[j].published[1])
        => scored[i].score >= scored[j].score

\* The multipliers prefs are those of the selection counts: one entry per
\* counted key, each 1 + count / max_count and so above 1 and at most 2, the
\* keys with the highest count at exactly 2.
MultipliersOf(prefs, counts) ==
    /\ {prefs[i][1] : i \in 1..Len(prefs)} = {k \in CounterKeys(counts) : CounterValue(counts, k) > 0}
    /\ \A i, j \in 1..Len(prefs) : prefs[i][1] = prefs[j][1] => i = j
    /\ \A i \in 1..Len(prefs) :
          LET count == CounterValue(counts, prefs[i][1])
              boost == prefs[i][2]
          IN /\ boost[1] * MaxCount(counts) = (MaxCount(counts) + count) * boost[2]
             /\ boost[1] > boost[2] /\ boost[1] <= 2 * boost[2]
             /\ count = MaxCount(counts) => boost = <<2, 1>>

\* C19: in a profile the learner built, every source and category multiplier
\* is 1.0 + count/max_count of the aggregated selection counts: above 1.0 and
\* at most 2.0, exactly 2.0 for the most selected, and no entry for a source
\* or category that was never selected.
C19_MultiplierFormula ==
    (profile.total_available > 0 \/ profile.source_preferences # <<>>
        \/ profile.category_preferences # <<>>) =>
        /\ cacheFile # <<>>
        /\ MultipliersOf(profile.source_preferences, cacheFile[1].stats.source_selections)
        /\ MultipliersOf(profile.category_preferences, cacheFile[1].stats.category_selections)

\* A profile with a most selected source at 2.0 and another source between.
C19_Witness ==
    /\ \E i \in 1..Len(profile.source_preferences) : profile.source_preferences[i][2] = <<2, 1>>
    /\ \E i \in 1..Len(profile.source_preferences) : profile.source_preferences[i][2] = <<3, 2>>
    /\ \E i \in 1..Len(profile.category_preferences) : profile.category_preferences[i][2] = <<3, 2>>

\* The mandatory picks of the headlines selection: the first Canadian
\* government story, then the first governance story not yet picked.
MandatoryPicks(headline) ==
    LET canadian_gov_stories == find_canadian_government_stories(headline)
        rule1 == IF canadian_gov_stories # <<>> THEN <<canadian_gov_stories[1]>> ELSE <<>>
        candidates == NotIn(find_governance_stories(headline), rule1)
    IN IF candidates # <<>> THEN Append(rule1, candidates[1]) ELSE rule1

GovernanceCount(list) == Len(SelectSeq(list, is_governance_story))

\* C20: when headline slots remain after the mandatory picks, the governance
\* stories added by the fill are governance_ratio times the remaining slots
\* (rounded down or up), or all that are left when there are fewer.
C20_RatioOfRemainingCapacity ==
    pc = "selected" =>
        LET headline == SeparateBySection(scored)["headline"]
            mandatory == MandatoryPicks(headline)
            remaining == selCfg[1].target_headlines - Len(mandatory)
            available == GovernanceCount(NotIn(headline, mandatory))
            added == GovernanceCount(selection.headlines) - GovernanceCount(mandatory)
            down == (remaining * selCfg[1].governance_ratio) \div 10
            up == (remaining * selCfg[1].governance_ratio + 9) \div 10
        IN remaining >= 1 => added \in {Min(available, down), Min(available, up)}

\* The normalized form of one rule, a malformed weight read as 1.0.
NormalizedRule(rule) ==
    [category |-> rule.name,
     keywords |-> LowerAll(SelectSeq(rule.keywords, LAMBDA k : k # <<>>)),
     boost |-> IF rule.priority.ok THEN rule.priority.val ELSE 10]

MalformedRules(raw) == {i \in 1..Len(raw) : ~raw[i].priority.ok}

\* C21: when one rule of the list has a weight that is not a number, the
\* normalized list has every rule in order, the malformed one with weight 1.0
\* and the others with their own keywords and weight.
C21_MalformedWeightIsolated ==
    (normalized # <<>> /\ Cardinality(MalformedRules(normalized[1].raw)) = 1) =>
        normalized[1].out =
            [i \in 1..Len(normalized[1].raw) |-> NormalizedRule(normalized[1].raw[i])]

MatchesTool(a) == a.category = "tools" \/ has_tool_keywords(a.title, a.summary)

MatchesDeepDive(a) == is_research_paper(a) \/ is_long_form(a)

\* C22: the section of a classified article is that of the first rule it
\* matches in the order grain_quality, tool, deep_dive, bright_spot,
\* headline, whatever later rules it matches too.
C22_FirstMatchingRule ==
    pc = "classified" =>
        \A i \in 1..Len(scored) :
            LET a == scored[i]
            IN a.section =
                 IF has_grain_keywords(a) THEN "grain_quality"
                 ELSE IF MatchesTool(a) THEN "tool"
                 ELSE IF MatchesDeepDive(a) THEN "deep_dive"
                 ELSE IF a.section = "bright_spot" THEN "bright_spot"
                 ELSE "headline"

\* A classification that labelled grain_quality an article matching the tool
\* and research rules too, and tool an article matching the research and
\* positive rules too.
C22_Witness ==
    /\ pc = "classified"
    /\ \E i \in 1..Len(scored) :
          /\ scored[i].section = "grain_quality"
          /\ MatchesTool(scored[i]) /\ MatchesDeepDive(scored[i])
    /\ \E i \in 1..Len(scored) :
          /\ scored[i].section = "tool"
          /\ MatchesDeepDive(scored[i])
          /\ has_positive_sentiment_keywords(scored[i].title, scored[i].summary)

\* The highest keyword contribution the code documents, in hundredths: 2.0
\* for each of the TopKeywords keywords of a profile.
KeywordBoostCap == TopKeywords * 200

\* C23: the boosted score less the original score and the source and
\* category contributions, the keyword contribution, never exceeds the cap
\* (to the rounding of the result).
C23_KeywordBoostCapped ==
    boosted # <<>> =>
        LET call == boosted[1]
            original_score == IF call.article.score = <<>> THEN 0 ELSE call.article.score[1]
            sm == MultiplierOf(call.profile.source_preferences, call.article.source)
            cm == MultiplierOf(call.profile.category_preferences, call.article.category)
            den == sm[2] * cm[2]
        IN (call.value - original_score) * den
              - original_score * (sm[1] - sm[2]) * cm[2]
              - original_score * (cm[1] - cm[2]) * sm[2]
           <= (KeywordBoostCap + 1) * den

\* The key of the selection that holds the articles of a section label.
OutputSection(label) ==
    CASE label = "headline" -> "headlines"
      [] label = "bright_spot" -> "bright_spots"
      [] label = "tool" -> "tools"
      [] label = "deep_dive" -> "deep_dives"
      [] label = "grain_quality" -> "grain_quality"

\* C24: an article that reaches auto_select_articles without a section label
\* is placed, when selected, in the output section of the label
\* classify_article_section gives it.
C24_SelectionClassifies ==
    pc = "selected" =>
        \A key \in DOMAIN selection : \A i \in 1..Len(selection[key]) :
            LET a == selection[key][i]
            IN a.section = "" =>
                 \E mode \in ClassifyModes :
                     OutputSection(classify_article_section(a, mode)) = key

\* C25: a classification batch with the sentiment oracle enabled eventually
\* completes, also when the oracle never answers.
C25_BatchCompletes == <>(batch.i > Len(batch.articles))

SentimentLabels == {"positive", "negative", "neutral", "mixed"}

\* all_articles of check_sentiment_distribution: the section lists, joined.
AllSelected(selected) ==
    selected.headlines \o selected.bright_spots \o selected.tools \o selected.deep_dives
        \o selected.grain_quality

\* check_sentiment_distribution(selected_articles): per label the fraction
\* <<count, total>>; <<>> is the empty dict returned for an empty selection.
check_sentiment_distribution(selected) ==
    LET all_articles == AllSelected(selected)
        count(label) == Len(SelectSeq(all_articles, LAMBDA a : a.sentiment = label))
    IN IF all_articles = <<>> THEN <<>>
       ELSE << [label \in SentimentLabels |-> <<count(label), Len(all_articles)>>] >>

\* C26: after classify_all_articles every article has one of the four
\* sentiment labels, and the four fractions of check_sentiment_distribution
\* over a non-empty selection of them sum to 1.
C26_SentimentFractionsSumToOne ==
    /\ pc = "classified" => \A i \in 1..Len(scored) : scored[i].sentiment \in SentimentLabels
    /\ (pc = "selected" /\ classifyMode # <<>> /\ AllSelected(selection) # <<>>) =>
          LET distribution == check_sentiment_distribution(selection)[1]
          IN distribution["positive"][1] + distribution["negative"][1]
                + distribution["neutral"][1] + distribution["mixed"][1]
             = Len(AllSelected(selection))

\* C27: a run after the content of an already processed review file changed
\* leaves the profile a from-scratch pass over the files now on disk produces.
C27_ChangedFileReflected ==
    [][(/\ AnalyzeStep
        /\ touched # {}
        /\ touched \subseteq FilesOnDisk) =>
          ProfileFields(profile') = ProfileFields(FromScratch(disk').profile)]_vars

\* No element of the list occurs at two positions.
NoRepeat(s) == \A i, j \in 1..Len(s) : s[i] = s[j] => i = j

\* C28: the selection of a list of pairwise distinct articles holds no
\* article twice, within a section or across sections.
C28_NoArticleTwice ==
    (pc = "selected" /\ NoRepeat(scored)) => NoRepeat(AllSelected(selection))

\* The Canadian government pick is itself the first governance story of the
\* headline pool, and rule 2 chose another governance story after it.
C28_Witness ==
    /\ pc = "selected"
    /\ NoRepeat(scored)
    /\ Len(selection.headlines) >= 2
    /\ is_canadian_government_story(selection.headlines[1])
    /\ find_governance_stories(SeparateBySection(scored)["headline"]) # <<>>
    /\ find_governance_stories(SeparateBySection(scored)["headline"])[1] = selection.headlines[1]
    /\ is_governance_story(selection.headlines[2])

\* What ArticleCache.get(key) returns at time t from the directory dir:
\* the payload, or nothing for None.
GetResult(dir, key, t) ==
    LET f == _get_cache_file(key)
    IN IF dir[f] = <<>> \/ dir[f][1].kind = "partial" \/ Expired(dir[f][1], t)
       THEN <<>> ELSE <<dir[f][1].data>>

\* C29: set(k1, v) leaves the result of get(k2) unchanged for every key k2
\* other than k1.
C29_KeysIndependent ==
    [][\A k1 \in CacheKeys, v \in Payloads :
          CacheSet(k1, v) =>
             \A k2 \in CacheKeys \ {k1} :
                GetResult(cacheDir', k2, timeNow') = GetResult(cacheDir, k2, timeNow)]_vars

\* C30: when at least target_count articles are classified as headline, the
\* selection holds exactly target_count headlines, whatever the number of
\* governance stories among them.
C30_HeadlinesFilled ==
    (pc = "selected" /\ Len(SeparateBySection(scored)["headline"]) >= selCfg[1].target_headlines)
        => Len(selection.headlines) = selCfg[1].target_headlines

====
